---------------------------- MODULE Spec2Model ----------------------------
(***************************************************************************)
(* A model of src/main.ts (droid-apikey, Cloudflare Workers version): the  *)
(* key masker, the upstream usage client with its 401 retry policy, the    *)
(* batch scheduler, the aggregator, the single-slot report cache held in   *)
(* the KV namespace, and the route handlers that read and overwrite it.    *)
(*                                                                         *)
(* Strings whose characters matter (credential secrets and their masked    *)
(* form) are sequences of one-character strings.                           *)
(*                                                                         *)
(* The specifications of the module:                                       *)
(*   SpecMask   maskApiKey / the result constructors over all secrets of   *)
(*              bounded length;                                            *)
(*   SpecBatch  one batchProcess run whose workers are fetchApiKeyData     *)
(*              calls, interleaved at their awaits;                        *)
(*   Spec       concurrent requests (GET /api/data, POST /api/keys,        *)
(*              DELETE /api/keys/:id, POST /api/keys/batch-delete) over    *)
(*              the KV namespace, interleaved at their awaits;             *)
(*   SpecAgg    one GET /api/data over an unchanging key store, against    *)
(*              every combination of upstream answers;                     *)
(*   SpecRefresh  POST /api/keys/:id/refresh next to GET /api/data;        *)
(*   SpecLive   one GET /api/data whose batch run is taken step by step,   *)
(*              under fair scheduling;                                     *)
(*   SpecFail   GET /api/data over a key store whose operations may fail.  *)
(***************************************************************************)
EXTENDS Integers, Sequences, FiniteSets, TLC

VARIABLES
  \* SpecMask: one fetchApiKeyData call for one secret
  mKey,      \* the secret the call was made with
  mRetry,    \* retryCount of the running invocation
  mPc,       \* "call" while a request is outstanding, "backoff" while the
             \* retry timer runs, "done" once returned
  mResult,   \* the ApiKeyResult returned
  mResps,    \* the responses received so far
  mCalls,    \* upstream requests issued so far
  mDelays,   \* the delayMs of the retry timers set so far
  \* SpecBatch: one batchProcess(items, processor, concurrency, delayMs) run
  bItems,    \* items: a sequence of ApiKey {id, key}
  bConc,     \* concurrency
  bPc,       \* "init", "await" (Promise.all), "delay" (setTimeout), "done", "rejected"
  bI,        \* the loop variable i
  bResults,  \* results
  wState,    \* per item: "idle", "inflight", "backoff", "settled"
  wRetry,    \* per item: retryCount of the running invocation
  wResult,   \* per item: what its promise resolved with
  wResps,    \* per item: the statuses of the responses received so far
  wCalls,    \* per item: upstream requests issued so far
  bOrder,    \* the items in the order in which their promises settled
  bDelays,   \* the inter-batch sleeps so far: the loop index i of each
  \* Spec: the KV namespace and the requests being served
  kvKeys,    \* the entries "api_keys:<id>": a function from id to secret
  kvCache,   \* the entry "cache:data": NoCache or [report, expiry]
  now,       \* the clock, in seconds
  nextId,    \* the ids handed out so far are 1..nextId-1
  req        \* per request: the handler it runs and the handler's locals

maskVars == <<mKey, mRetry, mPc, mResult, mResps, mCalls, mDelays>>

batchVars == <<bItems, bConc, bPc, bI, bResults, wState, wRetry, wResult,
               wResps, wCalls, bOrder, bDelays>>

sysVars == <<kvKeys, kvCache, now, nextId, req>>

vars == <<maskVars, batchVars, sysVars>>

\* ------------------------------------------------------------------ bounds

\* longest secret examined by SpecMask
MaxLen == 11

\* most items handed to batchProcess, and the largest concurrency, in SpecBatch
MaxItems == 3

MaxConc == 2

\* Spec: ids ever handed out, and the clock's last tick (a tick is
\* AUTO_REFRESH_INTERVAL_SECONDS long)
MaxKeys == 2

MaxTicks == 2

\* SpecAgg: most credentials in the key store
MaxAggKeys == 4

\* SpecLive: most credentials in the key store
MaxLiveKeys == 2

\* ------------------------------------------------------- program constants

KEY_MASK_PREFIX_LENGTH == 4

KEY_MASK_SUFFIX_LENGTH == 4

AUTO_REFRESH_INTERVAL_SECONDS == 60

\* fetchApiKeyData: const maxRetries = 2
maxRetries == 2

\* fetchApiKeyData: delayMs = (retryCount + 1) * 1000
RETRY_DELAY_UNIT_MS == 1000

MS_PER_DAY == 86400000

TIMEZONE_OFFSET_HOURS == 8

Min(a, b) == IF a < b THEN a ELSE b

Max(a, b) == IF a > b THEN a ELSE b

\* ------------------------------------------------------------------ strings

Alphabet == {"a", "."}

\* all strings over Alphabet of length 0..n
Strings(n) == UNION {[1..k -> Alphabet] : k \in 0..n}

\* String.prototype.substring(from, to) with 0 <= from: both ends are clamped
\* to the length of the string
substring(s, from, to) ==
  LET f == Min(Max(from, 0), Len(s))
      t == Min(Max(to, 0), Len(s))
  IN  SubSeq(s, Min(f, t) + 1, Max(f, t))

\* s occurs in m as a contiguous substring (String.prototype.includes)
Contains(m, s) ==
  \E off \in 0..(Len(m) - Len(s)) : SubSeq(m, off + 1, off + Len(s)) = s

StartsWith(m, s) == Len(s) <= Len(m) /\ SubSeq(m, 1, Len(s)) = s

\* ---------------------------------------------------------------- KeyMasker

maskApiKey(key) ==
  IF Len(key) <= KEY_MASK_PREFIX_LENGTH + KEY_MASK_SUFFIX_LENGTH
    THEN substring(key, 0, KEY_MASK_PREFIX_LENGTH) \o <<".", ".", ".">>
    ELSE substring(key, 0, KEY_MASK_PREFIX_LENGTH) \o <<".", ".", ".">>
           \o substring(key, Len(key) - KEY_MASK_SUFFIX_LENGTH, Len(key))

\* -------------------------------------------------------------- UsageClient

\* What one upstream request can end in.  status 0 stands for fetch()
\* rejecting (network error, timeout); a body with the field unparseable
\* makes response.json() throw; the body with the field null is the JSON
\* value null; a body is otherwise the parsed JSON object, a record in which
\* any field may be missing.
Standards ==
  { [orgTotalTokensUsed |-> 100, totalAllowance |-> 500, usedRatio |-> 20],
    [orgTotalTokensUsed |-> 500, totalAllowance |-> 500, usedRatio |-> 100],
    [orgTotalTokensUsed |-> 700, totalAllowance |-> 500, usedRatio |-> 140],
    [totalAllowance |-> 300] }

Bodies ==
  { [unparseable |-> TRUE] }
    \cup { [null |-> TRUE] }
    \cup { [other |-> 0] }
    \cup { [usage |-> [startDate |-> 0]] }
    \cup { [usage |-> [startDate |-> 0, endDate |-> MS_PER_DAY, standard |-> s]] :
             s \in Standards }
    \cup { [usage |-> [standard |-> s]] : s \in Standards }

Responses ==
  { [status |-> st, body |-> [unparseable |-> TRUE]] :
      st \in {0, 401, 403, 500} }
    \cup { [status |-> 200, body |-> b] : b \in Bodies }

\* formatDate on the timestamps the model's bodies carry: a missing field
\* (undefined) gives 'N/A', an epoch-millisecond value the UTC day
formatDate(rec, field) ==
  IF field \notin DOMAIN rec THEN "N/A"
  ELSE CASE rec[field] \div MS_PER_DAY = 0 -> "1970-01-01"
         [] rec[field] \div MS_PER_DAY = 1 -> "1970-01-02"
         [] OTHER -> "later"

\* `x.field || 0`
OrZero(rec, field) == IF field \in DOMAIN rec THEN rec[field] ELSE 0

ApiErrorData(id, maskedKey, error) ==
  [id |-> id, key |-> maskedKey, error |-> error]

\* a usage result that also carries an (empty) error field
ApiUsageDataWithError(id, maskedKey, usage) ==
  [id |-> id, key |-> maskedKey, error |-> "",
   startDate |-> formatDate(usage, "startDate"),
   endDate |-> formatDate(usage, "endDate"),
   orgTotalTokensUsed |-> OrZero(usage.standard, "orgTotalTokensUsed"),
   totalAllowance |-> OrZero(usage.standard, "totalAllowance"),
   usedRatio |-> OrZero(usage.standard, "usedRatio")]

ApiUsageData(id, maskedKey, usage) ==
  [id |-> id, key |-> maskedKey,
   startDate |-> formatDate(usage, "startDate"),
   endDate |-> formatDate(usage, "endDate"),
   orgTotalTokensUsed |-> OrZero(usage.standard, "orgTotalTokensUsed"),
   totalAllowance |-> OrZero(usage.standard, "totalAllowance"),
   usedRatio |-> OrZero(usage.standard, "usedRatio")]

HttpError(status) ==
  CASE status = 401 -> "HTTP 401"
    [] status = 403 -> "HTTP 403"
    [] status = 500 -> "HTTP 500"
    [] OTHER -> "HTTP other"

\* response.ok
Ok(resp) == resp.status >= 200 /\ resp.status <= 299

\* One pass through the body of fetchApiKeyData(id, key, retryCount) for the
\* response resp of its upstream request: what the call does next.
\*   kind "return": the promise resolves with result;
\*   kind "retry":  it sleeps delayMs and calls itself with retryCount + 1;
\*   kind "throw":  the promise rejects.
NoResult == [none |-> TRUE]

Return(result) == [kind |-> "return", delayMs |-> 0, result |-> result]

Retry(delayMs) == [kind |-> "retry", delayMs |-> delayMs, result |-> NoResult]

Throw == [kind |-> "throw", delayMs |-> 0, result |-> NoResult]

\* a backoff of the same length before every retry
retryDelayMsConstant(retryCount) == RETRY_DELAY_UNIT_MS

\* `const delayMs = (retryCount + 1) * 1000`
retryDelayMs(retryCount) == (retryCount + 1) * RETRY_DELAY_UNIT_MS

\* a retry after any non-2xx status
shouldRetryAnyStatus(status, retryCount) == retryCount < maxRetries

\* `response.status === 401 && retryCount < maxRetries`
shouldRetry(status, retryCount) == status = 401 /\ retryCount < maxRetries

\* a catch block that retries what was thrown while retries are left
catchBlockRetrying(id, maskedKey, retryCount) ==
  IF retryCount < maxRetries
    THEN Retry(retryDelayMs(retryCount))
    ELSE Return(ApiErrorData(id, maskedKey, "Failed to fetch"))

\* `catch (error) { return { id, key: maskedKey, error: 'Failed to fetch' } }`
catchBlock(id, maskedKey, retryCount) ==
  Return(ApiErrorData(id, maskedKey, "Failed to fetch"))

\* `await response.json()` rejects
jsonThrows(body) == "unparseable" \in DOMAIN body

\* `const { usage } = apiData` throws a TypeError: the body is the JSON
\* value null, which has no properties to destructure
destructureThrows(body) == "null" \in DOMAIN body

\* `!usage?.standard`
lacksStandard(body) ==
  "usage" \notin DOMAIN body \/ "standard" \notin DOMAIN body.usage

\* fetchApiKeyData with `retryCount <= maxRetries`: one retry too many
fetchApiKeyDataExtraRetry(id, key, retryCount, resp) ==
  LET maskedKey == maskApiKey(key)
  IN  IF resp.status = 0
        THEN catchBlock(id, maskedKey, retryCount)
      ELSE IF ~Ok(resp)
        THEN IF resp.status = 401 /\ retryCount <= maxRetries
               THEN Retry(retryDelayMs(retryCount))
               ELSE Return(ApiErrorData(id, maskedKey, HttpError(resp.status)))
      ELSE IF jsonThrows(resp.body) \/ destructureThrows(resp.body)
        THEN catchBlock(id, maskedKey, retryCount)
      ELSE IF lacksStandard(resp.body)
        THEN Return(ApiErrorData(id, maskedKey, "Invalid API response"))
      ELSE Return(ApiUsageData(id, maskedKey, resp.body.usage))

\* fetchApiKeyData without its try/catch: a rejected fetch(), a throwing
\* response.json() or a throwing destructuring rejects the call
fetchApiKeyDataNoCatch(id, key, retryCount, resp) ==
  LET maskedKey == maskApiKey(key)
  IN  IF resp.status = 0
        THEN Throw
      ELSE IF ~Ok(resp)
        THEN IF shouldRetry(resp.status, retryCount)
               THEN Retry(retryDelayMs(retryCount))
               ELSE Return(ApiErrorData(id, maskedKey, HttpError(resp.status)))
      ELSE IF jsonThrows(resp.body) \/ destructureThrows(resp.body)
        THEN Throw
      ELSE IF lacksStandard(resp.body)
        THEN Return(ApiErrorData(id, maskedKey, "Invalid API response"))
      ELSE Return(ApiUsageData(id, maskedKey, resp.body.usage))

\* fetchApiKeyData whose catch block puts the raw key into the result
fetchApiKeyDataRawKeyOnCatch(id, key, retryCount, resp) ==
  LET maskedKey == maskApiKey(key)
  IN  IF resp.status = 0
        THEN catchBlock(id, key, retryCount)
      ELSE IF ~Ok(resp)
        THEN IF shouldRetry(resp.status, retryCount)
               THEN Retry(retryDelayMs(retryCount))
               ELSE Return(ApiErrorData(id, maskedKey, HttpError(resp.status)))
      ELSE IF jsonThrows(resp.body) \/ destructureThrows(resp.body)
        THEN catchBlock(id, key, retryCount)
      ELSE IF lacksStandard(resp.body)
        THEN Return(ApiErrorData(id, maskedKey, "Invalid API response"))
      ELSE Return(ApiUsageData(id, maskedKey, resp.body.usage))

\* lines 176-212: a rejected fetch() (status 0), a rejected response.json()
\* and a throwing destructuring all end in the catch block
fetchApiKeyData(id, key, retryCount, resp) ==
  LET maskedKey == maskApiKey(key)
  IN  IF resp.status = 0
        THEN catchBlock(id, maskedKey, retryCount)
      ELSE IF ~Ok(resp)
        THEN IF shouldRetry(resp.status, retryCount)
               THEN Retry(retryDelayMs(retryCount))
               ELSE Return(ApiErrorData(id, maskedKey, HttpError(resp.status)))
      ELSE IF jsonThrows(resp.body) \/ destructureThrows(resp.body)
        THEN catchBlock(id, maskedKey, retryCount)
      ELSE IF lacksStandard(resp.body)
        THEN Return(ApiErrorData(id, maskedKey, "Invalid API response"))
      ELSE Return(ApiUsageData(id, maskedKey, resp.body.usage))

isApiUsageData(result) == "error" \notin DOMAIN result

\* --------------------------------------------------------------- Aggregator

\* allowance minus used, negative when more was used than allowed
remainingUnclamped(r) == r.totalAllowance - r.orgTotalTokensUsed

\* Math.max(0, r.totalAllowance - r.orgTotalTokensUsed)
remaining(r) == Max(0, r.totalAllowance - r.orgTotalTokensUsed)

\* r put ahead of the elements it ties with
RECURSIVE insertDescBeforeTies(_, _)
insertDescBeforeTies(sorted, r) ==
  IF sorted = <<>> THEN <<r>>
  ELSE IF remaining(r) >= remaining(Head(sorted))
    THEN <<r>> \o sorted
    ELSE <<Head(sorted)>> \o insertDescBeforeTies(Tail(sorted), r)

\* r put into a sequence already sorted by remaining, descending, behind
\* every element that does not sort after it
RECURSIVE insertDesc(_, _)
insertDesc(sorted, r) ==
  IF sorted = <<>> THEN <<r>>
  ELSE IF remaining(r) > remaining(Head(sorted))
    THEN <<r>> \o sorted
    ELSE <<Head(sorted)>> \o insertDesc(Tail(sorted), r)

\* the valid results left in the order of the input
sortByRemainingDescUnsorted(seq) == seq

\* .sort((a, b) => b.remaining - a.remaining): Array.prototype.sort is stable
RECURSIVE sortByRemainingDesc(_)
sortByRemainingDesc(seq) ==
  IF seq = <<>> THEN <<>>
  ELSE insertDesc(sortByRemainingDesc(SubSeq(seq, 1, Len(seq) - 1)),
                  seq[Len(seq)])

zeroTotals ==
  [total_orgTotalTokensUsed |-> 0, total_totalAllowance |-> 0,
   totalRemaining |-> 0]

\* validResults.reduce(..., emptyResponse.totals)
RECURSIVE reduceTotals(_, _)
reduceTotals(valid, acc) ==
  IF valid = <<>> THEN acc
  ELSE reduceTotals(Tail(valid),
         [total_orgTotalTokensUsed |->
            acc.total_orgTotalTokensUsed + Head(valid).orgTotalTokensUsed,
          total_totalAllowance |->
            acc.total_totalAllowance + Head(valid).totalAllowance,
          totalRemaining |-> acc.totalRemaining + remaining(Head(valid))])

\* getBeijingTime() at clock t (seconds)
getBeijingTime(t) == t + TIMEZONE_OFFSET_HOURS * 60 * 60

\* formatDateTime: the time of day "HH:MM:SS" of a Date as <<HH, MM, SS>>;
\* the model's clock never leaves the first day
formatDateTime(date) ==
  <<(date \div 3600) % 24, (date \div 60) % 60, date % 60>>

emptyResponse(beijingTime) ==
  [update_time |-> formatDateTime(beijingTime), total_count |-> 0,
   totals |-> zeroTotals, data |-> <<>>]

\* an aggregation whose total_count counts the valid results only
aggregateCountValid(keyPairs, results, beijingTime) ==
  LET validResults == SelectSeq(results, isApiUsageData)
  IN  [update_time |-> formatDateTime(beijingTime),
       total_count |-> Len(validResults),
       totals |-> reduceTotals(validResults, zeroTotals),
       data |-> sortByRemainingDesc(validResults)
                  \o SelectSeq(results, LAMBDA r : "error" \in DOMAIN r)]

\* an aggregation that leaves the Failure results out of data
aggregateValidOnly(keyPairs, results, beijingTime) ==
  LET validResults == SelectSeq(results, isApiUsageData)
  IN  [update_time |-> formatDateTime(beijingTime),
       total_count |-> Len(keyPairs),
       totals |-> reduceTotals(validResults, zeroTotals),
       data |-> sortByRemainingDesc(validResults)]

\* getAggregatedData from line 236 on: the report built from the results of
\* the batch run over keyPairs
aggregate(keyPairs, results, beijingTime) ==
  LET validResults == SelectSeq(results, isApiUsageData)
  IN  [update_time |-> formatDateTime(beijingTime),
       total_count |-> Len(keyPairs),
       totals |-> reduceTotals(validResults, zeroTotals),
       data |-> sortByRemainingDesc(validResults)
                  \o SelectSeq(results, LAMBDA r : "error" \in DOMAIN r)]

\* -------------------------------------------------------------- ReportCache

NoCache == [absent |-> TRUE]

NoReport == [absent |-> TRUE]

\* expirationTtl: CONFIG.AUTO_REFRESH_INTERVAL_SECONDS * 2
CacheTtl == AUTO_REFRESH_INTERVAL_SECONDS * 2

\* a getCachedData that is handed an entry whatever its age
getCachedDataIgnoringExpiry(cache, t) ==
  IF "report" \in DOMAIN cache THEN cache.report ELSE NoReport

\* kv.get("cache:data", "json") at clock t: the namespace does not return an
\* entry whose expiration has passed
getCachedData(cache, t) ==
  IF "report" \in DOMAIN cache /\ t < cache.expiry THEN cache.report
  ELSE NoReport

\* a put that updates the fields of the stored report one by one and is
\* observed part-way: data replaced, the rest still the old report's
setCachedDataPartial(cache, data, t) ==
  IF "report" \in DOMAIN cache
    THEN [report |-> [cache.report EXCEPT !.data = data.data],
          expiry |-> t + CacheTtl]
    ELSE [report |-> data, expiry |-> t + CacheTtl]

\* kv.put("cache:data", JSON.stringify(data), {expirationTtl}) at clock t:
\* the new value of the slot, whatever the slot held
setCachedData(cache, data, t) == [report |-> data, expiry |-> t + CacheTtl]

\* =========================================================================
\* SpecMask: fetchApiKeyData(id, key) called once for every secret over
\* Alphabet of length 0..MaxLen, against every sequence of responses.
\* =========================================================================

MaskResponses ==
  { [status |-> st, body |-> [unparseable |-> TRUE]] :
      st \in {0, 401, 403, 500} }
    \cup { [status |-> 200, body |-> [unparseable |-> TRUE]],
           [status |-> 200, body |-> [null |-> TRUE]],
           [status |-> 200, body |-> [other |-> 0]],
           [status |-> 200, body |-> [usage |-> [startDate |-> 0]]],
           [status |-> 200,
            body |-> [usage |-> [standard |->
                        [orgTotalTokensUsed |-> 100, totalAllowance |-> 500]]]] }

MaskIdle ==
  /\ mKey = <<>> /\ mRetry = 0 /\ mPc = "off" /\ mResult = NoResult
  /\ mResps = <<>> /\ mCalls = 0 /\ mDelays = <<>>

BatchIdle ==
  /\ bItems = <<>> /\ bConc = 0 /\ bPc = "off" /\ bI = 0 /\ bResults = <<>>
  /\ wState = <<>> /\ wRetry = <<>> /\ wResult = <<>> /\ wResps = <<>>
  /\ wCalls = <<>> /\ bOrder = <<>> /\ bDelays = <<>>

SysIdle ==
  /\ kvKeys = <<>> /\ kvCache = NoCache /\ now = 0 /\ nextId = 1
  /\ req = <<>>

InitMask ==
  /\ mKey \in Strings(MaxLen)
  /\ mRetry = 0
  /\ mPc = "call"
  /\ mResult = NoResult
  /\ mResps = <<>>
  /\ mCalls = 1
  /\ mDelays = <<>>
  /\ BatchIdle
  /\ SysIdle

\* the outstanding request ends in resp and fetchApiKeyData runs to its
\* next await (the retry timer of lines 186-187) or to its return
MaskFetch ==
  /\ mPc = "call"
  /\ \E resp \in MaskResponses :
       LET step == fetchApiKeyData("key-1", mKey, mRetry, resp)
       IN  /\ mResps' = Append(mResps, resp)
           /\ IF step.kind = "retry"
                THEN /\ mPc' = "backoff"
                     /\ mDelays' = Append(mDelays, step.delayMs)
                     /\ UNCHANGED mResult
                ELSE /\ mPc' = "done"
                     /\ mResult' = step.result
                     /\ UNCHANGED mDelays
  /\ UNCHANGED <<mKey, mRetry, mCalls, batchVars, sysVars>>

\* the retry timer fires: `return fetchApiKeyData(id, key, retryCount + 1)`
\* issues the next request
MaskRetry ==
  /\ mPc = "backoff"
  /\ mPc' = "call"
  /\ mRetry' = mRetry + 1
  /\ mCalls' = mCalls + 1
  /\ UNCHANGED <<mKey, mResult, mResps, mDelays, batchVars, sysVars>>

NextMask ==
  \/ MaskFetch
  \/ MaskRetry

SpecMask == InitMask /\ [][NextMask]_vars

\* C6: for every non-empty secret, no field of the result a fetch returns
\* holds the complete raw secret as a contiguous substring.  (id, error,
\* startDate and endDate are built without the secret; key is the one field
\* derived from it.)
C6_NoRawSecretInResult ==
  (mPc = "done" /\ Len(mKey) > 0) => ~Contains(mResult.key, mKey)

\* C7: for every secret longer than P+S the mask does not contain the secret,
\* and for every secret the mask starts with its first min(P, len) characters.
C7_MaskHidesLongSecret ==
  mPc = "done" =>
    /\ Len(mKey) > KEY_MASK_PREFIX_LENGTH + KEY_MASK_SUFFIX_LENGTH
         => ~Contains(mResult.key, mKey)
    /\ StartsWith(mResult.key,
                  SubSeq(mKey, 1, Min(KEY_MASK_PREFIX_LENGTH, Len(mKey))))

\* the statuses of the responses received so far
Statuses(resps) == [k \in DOMAIN resps |-> resps[k].status]

\* C12: a call answered 401, 401, then 200 with a well-formed body returns a
\* Success result after exactly 3 requests, having waited 1000 ms before the
\* second and 2000 ms before the third; the wait before retry k is always
\* k x 1000 ms and precedes the request of retry k.
C12_RetryBackoff ==
  /\ \A k \in DOMAIN mDelays : mDelays[k] = k * 1000
  /\ mCalls = IF mPc = "backoff" THEN Len(mDelays) ELSE Len(mDelays) + 1
  /\ (mPc = "done" /\ Statuses(mResps) = <<401, 401, 200>>
        /\ "usage" \in DOMAIN mResps[3].body
        /\ "standard" \in DOMAIN mResps[3].body.usage) =>
       /\ isApiUsageData(mResult)
       /\ mCalls = 3
       /\ mDelays = <<1000, 2000>>

\* C12 witness: a call answered 401, 401, 200 has returned a Success result
C12_Witness ==
  /\ mPc = "done"
  /\ Statuses(mResps) = <<401, 401, 200>>
  /\ isApiUsageData(mResult)
  /\ mResult.totalAllowance = 500

\* fetch() rejected, or response.json() of a 2xx response rejected
TransportFailure(resp) ==
  resp.status = 0 \/ (Ok(resp) /\ "unparseable" \in DOMAIN resp.body)

\* C13: a request that ends in a transport failure, on the first attempt or
\* on a retry, is the call's last: the call has returned the Failure result
\* with the generic message and issued no further request.
C13_TransportFailureIsTerminal ==
  \A k \in DOMAIN mResps :
    TransportFailure(mResps[k]) =>
      /\ mPc = "done"
      /\ k = Len(mResps)
      /\ mCalls = k
      /\ mResult = [id |-> "key-1", key |-> maskApiKey(mKey),
                    error |-> "Failed to fetch"]

\* C13 witness: a call that returned the generic Failure when the request of
\* its first retry was rejected
C13_Witness ==
  /\ mPc = "done"
  /\ Len(mResps) = 2
  /\ mResps[1].status = 401
  /\ mResps[2].status = 0
  /\ mResult.error = "Failed to fetch"

\* C14: a non-2xx status other than 401 ends the call at once with the
\* Failure "HTTP {status}"; a 401 on the third attempt ends it with the
\* Failure "HTTP 401".
C14_HttpErrorIsTerminal ==
  \A k \in DOMAIN mResps :
    /\ mResps[k].status \in {403, 500} =>
         /\ mPc = "done"
         /\ k = Len(mResps)
         /\ mCalls = k
         /\ "error" \in DOMAIN mResult
         /\ mResult.error = IF mResps[k].status = 403 THEN "HTTP 403"
                            ELSE "HTTP 500"
    /\ (mResps[k].status = 401 /\ k = 3) =>
         /\ mPc = "done"
         /\ Len(mResps) = 3
         /\ mCalls = 3
         /\ "error" \in DOMAIN mResult
         /\ mResult.error = "HTTP 401"

\* C14 witness: a call that returned "HTTP 401" after three 401 responses
C14_Witness ==
  /\ mPc = "done"
  /\ Statuses(mResps) = <<401, 401, 401>>
  /\ mResult.error = "HTTP 401"

\* C15: a call whose last response is 2xx with a body that parses but lacks
\* usage.standard has returned the Failure "Invalid API response" and issued
\* no further request.
C15_MissingStandardIsInvalidResponse ==
  \A k \in DOMAIN mResps :
    (Ok(mResps[k]) /\ "unparseable" \notin DOMAIN mResps[k].body
       /\ ("usage" \notin DOMAIN mResps[k].body
             \/ "standard" \notin DOMAIN mResps[k].body.usage)) =>
      /\ mPc = "done"
      /\ k = Len(mResps)
      /\ mCalls = k
      /\ "error" \in DOMAIN mResult
      /\ mResult.error = "Invalid API response"

\* C24: every result a fetchApiKeyData call returns is exactly one variant:
\* a Success with the usage fields and no error field, or a Failure with an
\* error field and no usage field; and exactly one of the aggregator's two
\* filters (isApiUsageData, 'error' in r) accepts it.
C24_ExactlyOneVariant ==
  mPc = "done" =>
    /\ \/ DOMAIN mResult = {"id", "key", "startDate", "endDate",
                             "orgTotalTokensUsed", "totalAllowance", "usedRatio"}
       \/ DOMAIN mResult = {"id", "key", "error"}
    /\ isApiUsageData(mResult) # ("error" \in DOMAIN mResult)
    /\ isApiUsageData(mResult) <=> "totalAllowance" \in DOMAIN mResult

\* C24 witness: a Success whose usedRatio, missing upstream, is 0, returned
\* on the call's second request
C24_Witness ==
  /\ mPc = "done"
  /\ Statuses(mResps) = <<401, 200>>
  /\ isApiUsageData(mResult)
  /\ "usedRatio" \notin DOMAIN mResps[2].body.usage.standard
  /\ mResult.usedRatio = 0

\* =========================================================================
\* SpecBatch: one run of batchProcess(items, ({id, key}) =>
\* fetchApiKeyData(id, key), concurrency, delayMs), for every number of items
\* 0..MaxItems and every concurrency 1..MaxConc, against every sequence of
\* upstream responses and every order in which the responses arrive.
\* =========================================================================

BatchResponses ==
  { [status |-> st, body |-> [unparseable |-> TRUE]] : st \in {0, 401, 500} }
    \cup { [status |-> 200, body |-> [unparseable |-> TRUE]],
           [status |-> 200, body |-> [other |-> 0]],
           [status |-> 200,
            body |-> [usage |-> [startDate |-> 0, standard |->
                        [orgTotalTokensUsed |-> 100, totalAllowance |-> 500]]]] }

\* the secret of the i-th item: pairwise distinct, of lengths on both sides
\* of KEY_MASK_PREFIX_LENGTH + KEY_MASK_SUFFIX_LENGTH
BatchKey(i) == <<"a", ".", "a", "a", "a", "a">> \o [j \in 1..i |-> "a"]

\* items.slice(i, i + concurrency), as the positions (1-based) of its items
batchSlice(n, i, concurrency) ==
  [k \in 1..(Min(i + concurrency, n) - i) |-> i + k]

Range(f) == {f[x] : x \in DOMAIN f}

\* a Promise.all that never fulfils
PromiseAllNeverSettled(batch, state) == FALSE

\* Promise.all(batch.map(processor)) fulfils once one promise has settled
PromiseAllSettledAny(batch, state) ==
  \E k \in DOMAIN batch : state[batch[k]] = "settled"

\* Promise.all(batch.map(processor)) fulfils once every promise has settled
PromiseAllSettled(batch, state) ==
  \A k \in DOMAIN batch : state[batch[k]] = "settled"

\* the batch's values in the order in which the promises settled
PromiseAllValuesByCompletion(batch, res) ==
  LET done == SelectSeq(bOrder, LAMBDA w : w \in Range(batch))
  IN  [k \in DOMAIN done |-> res[done[k]]]

\* the value of Promise.all: the promises' values in the order of batch
PromiseAllValues(batch, res) == [k \in DOMAIN batch |-> res[batch[k]]]

\* a sleep after every batch, the last one included
delayAfterEveryBatch(i, concurrency, n) == TRUE

\* `if (i + concurrency < items.length)`: the sleep is taken only when items
\* remain after the batch at loop index i
delayBeforeNextBatch(i, concurrency, n) == i + concurrency < n

InitBatch ==
  /\ \E n \in 0..MaxItems :
       /\ bItems = [i \in 1..n |-> [id |-> i, key |-> BatchKey(i)]]
       /\ wState = [i \in 1..n |-> "idle"]
       /\ wRetry = [i \in 1..n |-> 0]
       /\ wResult = [i \in 1..n |-> NoResult]
       /\ wResps = [i \in 1..n |-> <<>>]
       /\ wCalls = [i \in 1..n |-> 0]
  /\ bConc \in 1..MaxConc
  /\ bPc = "init"
  /\ bI = 0
  /\ bResults = <<>>
  /\ bOrder = <<>>
  /\ bDelays = <<>>
  /\ MaskIdle
  /\ SysIdle

\* batch.map(processor) at loop index i: every processor of the batch runs
\* synchronously up to its `await fetch(...)`, so the whole batch's first
\* requests are issued in one step
StartBatch(i) ==
  LET batch == batchSlice(Len(bItems), i, bConc)
  IN  /\ bI' = i
      /\ bPc' = "await"
      /\ wState' = [w \in DOMAIN wState |->
                      IF w \in Range(batch) THEN "inflight" ELSE wState[w]]
      /\ wCalls' = [w \in DOMAIN wCalls |->
                      IF w \in Range(batch) THEN 1 ELSE wCalls[w]]

\* batchProcess is called: with no items the loop body never runs
BatchCall ==
  /\ bPc = "init"
  /\ IF 0 < Len(bItems)
       THEN StartBatch(0)
       ELSE /\ bPc' = "done"
            /\ UNCHANGED <<bI, wState, wCalls>>
  /\ UNCHANGED <<bItems, bConc, bResults, wRetry, wResult, wResps, bOrder,
                 bDelays, maskVars, sysVars>>

\* the outstanding request of item w ends in one of responses and
\* fetchApiKeyData runs to its next await or to its return
WorkerResponseFrom(w, responses) ==
  /\ wState[w] = "inflight"
  /\ \E resp \in responses :
       LET step == fetchApiKeyData(bItems[w].id, bItems[w].key, wRetry[w], resp)
       IN  /\ wResps' = [wResps EXCEPT ![w] = Append(@, resp.status)]
           /\ CASE step.kind = "retry" ->
                     /\ wState' = [wState EXCEPT ![w] = "backoff"]
                     /\ UNCHANGED <<wResult, bOrder, bPc>>
                [] step.kind = "return" ->
                     /\ wState' = [wState EXCEPT ![w] = "settled"]
                     /\ wResult' = [wResult EXCEPT ![w] = step.result]
                     /\ bOrder' = Append(bOrder, w)
                     /\ UNCHANGED bPc
                [] OTHER ->
                     \* a rejected promise rejects Promise.all, and with it
                     \* batchProcess; the other workers are not cancelled
                     /\ wState' = [wState EXCEPT ![w] = "settled"]
                     /\ bOrder' = Append(bOrder, w)
                     /\ bPc' = "rejected"
                     /\ UNCHANGED wResult
  /\ UNCHANGED <<bItems, bConc, bI, bResults, wRetry, wCalls, bDelays,
                 maskVars, sysVars>>

WorkerResponse(w) == WorkerResponseFrom(w, BatchResponses)

\* the backoff timer of item w fires: fetchApiKeyData(id, key, retryCount + 1)
\* issues the next request
WorkerRetry(w) ==
  /\ wState[w] = "backoff"
  /\ wState' = [wState EXCEPT ![w] = "inflight"]
  /\ wRetry' = [wRetry EXCEPT ![w] = @ + 1]
  /\ wCalls' = [wCalls EXCEPT ![w] = @ + 1]
  /\ UNCHANGED <<bItems, bConc, bPc, bI, bResults, wResult, wResps, bOrder,
                 bDelays, maskVars, sysVars>>

\* Promise.all fulfils: results.push(...batchResults), then either the
\* inter-batch sleep or, after the last batch, the return
BatchSettled ==
  LET batch == batchSlice(Len(bItems), bI, bConc)
  IN  /\ bPc = "await"
      /\ PromiseAllSettled(batch, wState)
      /\ bResults' = bResults \o PromiseAllValues(batch, wResult)
      /\ IF delayBeforeNextBatch(bI, bConc, Len(bItems))
           THEN bPc' = "delay" /\ bI' = bI /\ bDelays' = Append(bDelays, bI)
           ELSE bPc' = "done" /\ bI' = bI + bConc /\ UNCHANGED bDelays
      /\ UNCHANGED <<bItems, bConc, wState, wRetry, wResult, wResps, wCalls,
                     bOrder, maskVars, sysVars>>

\* the inter-batch timer fires: i += concurrency, and the next batch starts
\* if the loop test `i < items.length` holds
DelayElapsed ==
  /\ bPc = "delay"
  /\ IF bI + bConc < Len(bItems)
       THEN StartBatch(bI + bConc)
       ELSE /\ bPc' = "done"
            /\ bI' = bI + bConc
            /\ UNCHANGED <<wState, wCalls>>
  /\ UNCHANGED <<bItems, bConc, bResults, wRetry, wResult, wResps, bOrder,
                 bDelays, maskVars, sysVars>>

NextBatch ==
  \/ BatchCall
  \/ \E w \in DOMAIN bItems : WorkerResponse(w)
  \/ \E w \in DOMAIN bItems : WorkerRetry(w)
  \/ BatchSettled
  \/ DelayElapsed

SpecBatch == InitBatch /\ [][NextBatch]_vars

\* the chunk (0-based) of the item at position w
ChunkOf(w) == (w - 1) \div bConc

InFlight == {w \in DOMAIN bItems : wState[w] \in {"inflight", "backoff"}}

\* C3: no worker of a later chunk has started while a worker of an earlier
\* chunk has not settled (its 401 retries included), and at most
\* `concurrency` workers are in flight at any moment.
C3_ChunksDoNotOverlap ==
  /\ \A i, j \in DOMAIN bItems :
       (ChunkOf(i) < ChunkOf(j) /\ wState[j] # "idle") => wState[i] = "settled"
  /\ Cardinality(InFlight) <= bConc

\* C3 witness: a worker of a later chunk is in flight after a worker of an
\* earlier chunk of two settled on its second retry
C3_Witness ==
  /\ bConc = 2
  /\ \E i, j \in DOMAIN bItems :
       /\ ChunkOf(i) < ChunkOf(j)
       /\ wState[j] = "inflight"
       /\ wRetry[i] = 2
       /\ wState[i] = "settled"

\* C4: a fetch call issues at most 3 upstream requests, and each request
\* after the first directly follows a 401 response of the same call.
C4_AtMostThreeRequests ==
  \A w \in DOMAIN bItems :
    /\ wCalls[w] <= 3
    /\ Len(wResps[w]) \in {wCalls[w] - 1, wCalls[w]}
    /\ \A k \in 1..(wCalls[w] - 1) : wResps[w][k] = 401
    /\ wCalls[w] = IF wState[w] = "idle" THEN 0 ELSE wRetry[w] + 1

\* C4 witness: a call that made three requests, all answered 401
C4_Witness ==
  \E w \in DOMAIN bItems :
    wState[w] = "settled" /\ wCalls[w] = 3 /\ wResps[w] = <<401, 401, 401>>

\* C5: the batch run never rejects, and when it returns every credential of
\* the snapshot has exactly one result, whatever the other credentials'
\* requests ended in.
C5_EveryCredentialOneResult ==
  /\ bPc # "rejected"
  /\ bPc = "done" =>
       /\ Len(bResults) = Len(bItems)
       /\ \A i \in DOMAIN bItems :
            Cardinality({k \in DOMAIN bResults : bResults[k].id = bItems[i].id}) = 1

\* C5 witness: a finished run over three credentials in which one ended in a
\* transport failure, one exhausted its 401 retries and one succeeded
C5_Witness ==
  /\ bPc = "done"
  /\ Len(bItems) = 3
  /\ \E i, j, k \in DOMAIN bResults :
       /\ "error" \in DOMAIN bResults[i] /\ bResults[i].error = "Failed to fetch"
       /\ "error" \in DOMAIN bResults[j] /\ bResults[j].error = "HTTP 401"
       /\ isApiUsageData(bResults[k])

\* C10: batchProcess returns as many results as items, the i-th being what
\* the worker of items[i] resolved with.
C10_ResultsInInputOrder ==
  bPc = "done" =>
    /\ Len(bResults) = Len(bItems)
    /\ \A i \in DOMAIN bItems :
         /\ wResult[i] # NoResult
         /\ bResults[i] = wResult[i]
         /\ bResults[i].id = bItems[i].id

\* C10 witness: a finished run in which two workers of one chunk settled in
\* the reverse of their input order
C10_Witness ==
  /\ bPc = "done"
  /\ \E a, b \in DOMAIN bOrder :
       a < b /\ bOrder[a] > bOrder[b] /\ ChunkOf(bOrder[a]) = ChunkOf(bOrder[b])

\* C23: the result of every fetchApiKeyData call, whatever its requests
\* ended in and however often it retried, carries the id the call was made
\* with and the masked form of the secret it was made with.
C23_ResultCarriesIdAndMaskedKey ==
  \A w \in DOMAIN bItems :
    wState[w] = "settled" =>
      /\ wResult[w].id = bItems[w].id
      /\ wResult[w].key = maskApiKey(bItems[w].key)

\* C23 witness: a finished run in which a call returned a Failure after a
\* retry ended in a rejected fetch(), one returned "Invalid API response"
\* and one a Success on its third request
C23_Witness ==
  /\ bPc = "done"
  /\ \E i, j, k \in DOMAIN bItems :
       /\ wResps[i] = <<401, 0>>
       /\ "error" \in DOMAIN wResult[j]
       /\ wResult[j].error = "Invalid API response"
       /\ wCalls[k] = 3
       /\ isApiUsageData(wResult[k])

\* the chunks (0-based) that have started
ChunksStarted == {ChunkOf(w) : w \in {w \in DOMAIN bItems : wState[w] # "idle"}}

\* ceil(n / c)
CeilDiv(n, c) == (n + c - 1) \div c

\* C11: batchProcess sleeps exactly once between each pair of consecutive
\* chunks and not after the last: the k-th sleep is taken when chunk k has
\* settled and no later chunk has started, the next chunk starts only after
\* it, and a finished run over n >= 1 items has slept ceil(n/c) - 1 times.
C11_OneDelayBetweenChunks ==
  /\ \A k \in DOMAIN bDelays : bDelays[k] = (k - 1) * bConc
  /\ Len(bDelays) = IF bPc = "delay" THEN Cardinality(ChunksStarted)
                    ELSE Max(Cardinality(ChunksStarted) - 1, 0)
  /\ bPc = "delay" =>
       \A w \in DOMAIN bItems :
         wState[w] = IF ChunkOf(w) < Len(bDelays) THEN "settled" ELSE "idle"
  /\ (bPc = "done" /\ Len(bItems) >= 1) =>
       Len(bDelays) = CeilDiv(Len(bItems), bConc) - 1

\* C11 witness: a finished run over three items in chunks of two: one sleep,
\* taken at loop index 0, and none after the second chunk
C11_Witness ==
  /\ bPc = "done"
  /\ Len(bItems) = 3
  /\ bConc = 2
  /\ bDelays = <<0>>

\* =========================================================================
\* Spec: the requests of Procs, one handler each, served concurrently over
\* one KV namespace.  A handler runs
\* without interruption between two awaits; every await of a KV operation is
\* a step of its own, so the handlers of different requests interleave
\* there.  The batch run inside getAggregatedData touches no KV entry and is
\* one step: for each key pair, the result of the response that ended its
\* fetchApiKeyData call.  The continuation after a handler's last await
\* (building the Response) is part of that await's step.
\* =========================================================================

Procs == {"r1", "r2"}

SysSecrets == { <<"a", ".", "a", "a", "a", "a", "a", "a", "a">>, <<"a", "a">> }

SysResponses ==
  { [status |-> 500, body |-> [unparseable |-> TRUE]],
    [status |-> 200,
     body |-> [usage |-> [startDate |-> 0, standard |->
                 [orgTotalTokensUsed |-> 100, totalAllowance |-> 500]]]] }

IdleReq ==
  [op |-> "idle", pc |-> "idle", ctx |-> "none", arg |-> {}, pending |-> {},
   key |-> <<>>, names |-> <<>>, keyPairs |-> <<>>, time |-> 0,
   report |-> NoReport, resp |-> NoReport, status |-> 0, found |-> "none",
   fetches |-> 0]

\* the ids of a set in the order kv.list returns their names
RECURSIVE SortedIds(_)
SortedIds(S) ==
  IF S = {} THEN <<>>
  ELSE LET m == CHOOSE x \in S : \A y \in S : x <= y
       IN  <<m>> \o SortedIds(S \ {m})

\* kv.put(`api_keys:${id}`, key)
addKey(kv, id, key) ==
  [i \in DOMAIN kv \cup {id} |-> IF i = id THEN key ELSE kv[i]]

\* kv.delete(`api_keys:${id}`)
deleteKey(kv, id) == [i \in DOMAIN kv \ {id} |-> kv[i]]

\* the ids of the credentials a report has entries for
ReportIds(report) == {report.data[k].id : k \in DOMAIN report.data}

\* the request has been answered: what it did stays on record (its
\* arguments, the report its aggregation run built, the cache lookup's
\* outcome, the fetchApiKeyData calls it made)
Done(r, status, resp) ==
  [IdleReq EXCEPT !.op = r.op, !.pc = "done", !.arg = r.arg,
                  !.report = r.report, !.status = status, !.resp = resp,
                  !.found = r.found, !.fetches = r.fetches]

\* getAggregatedData without `if (keyPairs.length === 0) return emptyResponse`
AfterGetAllKeysNoEarlyReturn(r, keyPairs, t) ==
  [r EXCEPT !.names = <<>>, !.keyPairs = keyPairs, !.ctx = "none",
            !.time = getBeijingTime(t), !.pc = "batch"]

\* getAggregatedData after `await getAllKeys(kv)` returned keyPairs at clock
\* t: the empty report is returned at once, otherwise batchProcess is called
AfterGetAllKeys(r, keyPairs, t) ==
  IF Len(keyPairs) = 0
    THEN [r EXCEPT !.names = <<>>, !.keyPairs = <<>>, !.ctx = "none",
                   !.report = emptyResponse(getBeijingTime(t)), !.pc = "put"]
    ELSE [r EXCEPT !.names = <<>>, !.keyPairs = keyPairs, !.ctx = "none",
                   !.time = getBeijingTime(t), !.pc = "batch"]

\* handleSingleKeyAdd after `await apiKeyExists(kv, key)`
AfterApiKeyExists(r, keyPairs) ==
  IF \E k \in DOMAIN keyPairs : keyPairs[k].key = r.key
    THEN Done(r, 409, NoReport)
    ELSE [r EXCEPT !.names = <<>>, !.keyPairs = <<>>, !.ctx = "none",
                   !.pc = "addKey"]

\* the caller of getAllKeys resumes with keyPairs
AfterKeys(r, keyPairs, t) ==
  IF r.ctx = "exists" THEN AfterApiKeyExists(r, keyPairs)
  ELSE AfterGetAllKeys(r, keyPairs, t)

\* the key stores at the start: ids 1..k with pairwise distinct secrets
InitialStores ==
  { kv \in UNION {[1..k -> SysSecrets] : k \in 0..MaxKeys} :
      \A i, j \in DOMAIN kv : i # j => kv[i] # kv[j] }

\* the request has not arrived yet
CanStart(p) == req[p].pc = "idle"

Init ==
  /\ \E keys \in InitialStores :
       /\ kvKeys = keys
       /\ nextId = Cardinality(DOMAIN keys) + 1
  /\ kvCache = NoCache
  /\ now = 0
  /\ req = [p \in Procs |-> IdleReq]
  /\ MaskIdle
  /\ BatchIdle

\* handleGetData up to and including `await getCachedData(kv)`: a cached
\* report is returned at once
GetData(p) ==
  /\ CanStart(p)
  /\ LET cachedData == getCachedData(kvCache, now)
         found == IF cachedData # NoReport THEN "hit"
                  ELSE IF "report" \in DOMAIN kvCache THEN "expired"
                  ELSE "absent"
         r == [IdleReq EXCEPT !.op = "get", !.found = found]
     IN  req' = [req EXCEPT ![p] =
                   IF cachedData # NoReport
                     THEN Done(r, 200, cachedData)
                     ELSE [r EXCEPT !.pc = "list", !.ctx = "agg"]]
  /\ UNCHANGED <<kvKeys, kvCache, now, nextId, maskVars, batchVars>>

\* getAllKeys: `await kv.list({prefix: "api_keys:"})`
ListKeys(p) ==
  /\ req[p].pc = "list"
  /\ LET names == SortedIds(DOMAIN kvKeys)
     IN  req' = [req EXCEPT ![p] =
                   IF names = <<>> THEN AfterKeys(req[p], <<>>, now)
                   ELSE [@ EXCEPT !.names = names, !.keyPairs = <<>>,
                                  !.pc = "get"]]
  /\ UNCHANGED <<kvKeys, kvCache, now, nextId, maskVars, batchVars>>

\* getAllKeys: `await kv.get(key.name)` for the next listed name; a name
\* whose entry is gone by now is skipped
GetKey(p) ==
  /\ req[p].pc = "get"
  /\ LET id == Head(req[p].names)
         keyPairs == IF id \in DOMAIN kvKeys
                       THEN Append(req[p].keyPairs,
                                   [id |-> id, key |-> kvKeys[id]])
                       ELSE req[p].keyPairs
     IN  req' = [req EXCEPT ![p] =
                   IF Len(req[p].names) = 1 THEN AfterKeys(@, keyPairs, now)
                   ELSE [@ EXCEPT !.names = Tail(req[p].names),
                                  !.keyPairs = keyPairs]]
  /\ UNCHANGED <<kvKeys, kvCache, now, nextId, maskVars, batchVars>>

\* getAggregatedData: `await batchProcess(keyPairs, ...)` and the report
\* built from its results.  resps[k] is the response that ended the call for
\* keyPairs[k] (SysResponses holds no 401, so it ends the call whatever the
\* retryCount); SpecBatch examines the run itself step by step.
RunBatch(p) ==
  /\ req[p].pc = "batch"
  /\ \E resps \in [DOMAIN req[p].keyPairs -> SysResponses] :
       LET results == [k \in DOMAIN req[p].keyPairs |->
                         fetchApiKeyData(req[p].keyPairs[k].id,
                                         req[p].keyPairs[k].key,
                                         maxRetries, resps[k]).result]
       IN  req' = [req EXCEPT ![p] =
                     [@ EXCEPT !.report = aggregate(req[p].keyPairs, results,
                                                    req[p].time),
                               !.fetches = Len(req[p].keyPairs),
                               !.keyPairs = <<>>, !.time = 0, !.pc = "put"]]
  /\ UNCHANGED <<kvKeys, kvCache, now, nextId, maskVars, batchVars>>

\* `await setCachedData(kv, data)` and the handler's return
PutCache(p) ==
  /\ req[p].pc = "put"
  /\ kvCache' = setCachedData(kvCache, req[p].report, now)
  /\ req' = [req EXCEPT ![p] =
               Done(@, 200, IF req[p].op = "get" THEN req[p].report
                            ELSE NoReport)]
  /\ UNCHANGED <<kvKeys, now, nextId, maskVars, batchVars>>

\* handleSingleKeyAdd with a non-empty key, up to the call of apiKeyExists
SingleKeyAdd(p) ==
  /\ CanStart(p)
  /\ nextId + Cardinality({q \in Procs : req[q].op = "add"
                                          /\ req[q].pc \in {"list", "get", "addKey"}
                                          /\ req[q].arg = {}}) <= MaxKeys
  /\ \E key \in SysSecrets :
       req' = [req EXCEPT ![p] =
                 [IdleReq EXCEPT !.op = "add", !.key = key, !.pc = "list",
                                 !.ctx = "exists"]]
  /\ UNCHANGED <<kvKeys, kvCache, now, nextId, maskVars, batchVars>>

\* handleSingleKeyAdd: `await addKey(kv, id, key)` with a fresh id
AddKey(p) ==
  /\ req[p].pc = "addKey"
  /\ kvKeys' = addKey(kvKeys, nextId, req[p].key)
  /\ nextId' = nextId + 1
  /\ req' = [req EXCEPT ![p] =
               [@ EXCEPT !.arg = {nextId}, !.pc = "list", !.ctx = "agg"]]
  /\ UNCHANGED <<kvCache, now, maskVars, batchVars>>

\* the ids a client can name: those handed out so far (an id is made of the
\* time and a random number when its key is added), and 0 for any id that
\* names no credential
KnownIds == 0..(nextId - 1)

\* handleDeleteKey up to and including `await deleteKey(kv, id)`
DeleteKey(p) ==
  /\ CanStart(p)
  /\ \E id \in KnownIds :
       /\ kvKeys' = deleteKey(kvKeys, id)
       /\ req' = [req EXCEPT ![p] =
                    [IdleReq EXCEPT !.op = "delete", !.arg = {id},
                                    !.pc = "list", !.ctx = "agg"]]
  /\ UNCHANGED <<kvCache, now, nextId, maskVars, batchVars>>

\* one deleteKey of handleBatchDeleteKeys's Promise.all takes effect
DeleteOne(r, id) ==
  [r EXCEPT !.pending = r.pending \ {id},
            !.pc = IF r.pending = {id} THEN "list" ELSE "deletes",
            !.ctx = IF r.pending = {id} THEN "agg" ELSE "none"]

\* handleBatchDeleteKeys with a non-empty ids array, up to the first
\* deleteKey that takes effect
BatchDeleteKeys(p) ==
  /\ CanStart(p)
  /\ \E ids \in SUBSET KnownIds \ {{}} : \E id \in ids :
       /\ kvKeys' = deleteKey(kvKeys, id)
       /\ req' = [req EXCEPT ![p] =
                    DeleteOne([IdleReq EXCEPT !.op = "batchDelete",
                                              !.arg = ids, !.pending = ids], id)]
  /\ UNCHANGED <<kvCache, now, nextId, maskVars, batchVars>>

\* handleBatchDeleteKeys: another deleteKey of the Promise.all takes effect
BatchDeleteNext(p) ==
  /\ req[p].pc = "deletes"
  /\ \E id \in req[p].pending :
       /\ kvKeys' = deleteKey(kvKeys, id)
       /\ req' = [req EXCEPT ![p] = DeleteOne(@, id)]
  /\ UNCHANGED <<kvCache, now, nextId, maskVars, batchVars>>

\* time passes
Tick ==
  /\ now < MaxTicks * AUTO_REFRESH_INTERVAL_SECONDS
  /\ now' = now + AUTO_REFRESH_INTERVAL_SECONDS
  /\ UNCHANGED <<kvKeys, kvCache, nextId, req, maskVars, batchVars>>

Next ==
  \/ \E p \in Procs : GetData(p)
  \/ \E p \in Procs : ListKeys(p)
  \/ \E p \in Procs : GetKey(p)
  \/ \E p \in Procs : RunBatch(p)
  \/ \E p \in Procs : PutCache(p)
  \/ \E p \in Procs : SingleKeyAdd(p)
  \/ \E p \in Procs : AddKey(p)
  \/ \E p \in Procs : DeleteKey(p)
  \/ \E p \in Procs : BatchDeleteKeys(p)
  \/ \E p \in Procs : BatchDeleteNext(p)
  \/ Tick

Spec == Init /\ [][Next]_vars

\* the requests that have been answered with status 200
Answered(op) ==
  {p \in Procs : req[p].pc = "done" /\ req[p].status = 200 /\ req[p].op = op}

\* C1: once an add or delete has returned, a reader of the cache never finds
\* a report that has an entry for a deleted credential or lacks the entry of
\* an added one (that is still stored).
C1_NoStaleReportAfterMutation ==
  LET report == getCachedData(kvCache, now)
  IN  report # NoReport =>
        /\ \A p \in Answered("delete") \cup Answered("batchDelete") :
             req[p].arg \cap ReportIds(report) = {}
        /\ \A p \in Answered("add") :
             (req[p].arg \cap DOMAIN kvKeys) \subseteq ReportIds(report)

\* C2: two GET /api/data within one TTL window (here: less than one TTL
\* after the start) with no credential mutation at all return identical
\* reports, also when they overlap; and a call that found a cached report
\* made no upstream request.
C2_SameReportWithinTtl ==
  /\ (now < CacheTtl /\ \A p \in Procs : req[p].op \in {"idle", "get"}) =>
       \A p, q \in Answered("get") : req[p].resp = req[q].resp
  /\ \A p \in Answered("get") : req[p].found = "hit" => req[p].fetches = 0

\* the sum over the Success entries of data of a field, or of remaining
RECURSIVE SumValid(_, _)
SumValid(data, field) ==
  IF data = <<>> THEN 0
  ELSE (IF ~isApiUsageData(Head(data)) THEN 0
        ELSE IF field = "remaining" THEN remaining(Head(data))
        ELSE Head(data)[field])
       + SumValid(Tail(data), field)

\* a report all of whose parts belong together
Complete(report) ==
  /\ DOMAIN report = {"update_time", "total_count", "totals", "data"}
  /\ report.total_count = Len(report.data)
  /\ report.totals =
       [total_orgTotalTokensUsed |-> SumValid(report.data, "orgTotalTokensUsed"),
        total_totalAllowance |-> SumValid(report.data, "totalAllowance"),
        totalRemaining |-> SumValid(report.data, "remaining")]

\* the reports that aggregation runs returned and their handlers stored
StoredRuns ==
  {req[q].report : q \in {q \in Procs : req[q].pc = "done"
                                        /\ req[q].report # NoReport}}

\* C8: a GET /api/data that arrives when the cached report has expired
\* (CacheTtl = 2 x 60 s after it was stored) or is absent takes the miss
\* path, which starts with the key-store listing; it makes one
\* fetchApiKeyData call per listed credential and stores the report it
\* returns with a fresh expiry; a cached report is returned only before its
\* expiry, without any upstream request.
C8_ExpiredCacheIsRecomputed ==
  [][\A p \in Procs :
       /\ (req[p].pc = "idle" /\ req'[p].op = "get") =>
            IF "report" \in DOMAIN kvCache /\ now < kvCache.expiry
              THEN /\ req'[p].pc = "done"
                   /\ req'[p].resp = kvCache.report
                   /\ req'[p].fetches = 0
              ELSE /\ req'[p].pc = "list"
                   /\ req'[p].resp = NoReport
       /\ (req[p].op = "get" /\ req[p].pc = "put" /\ req'[p].pc = "done") =>
            /\ req'[p].resp = req[p].report
            /\ req'[p].fetches = req[p].report.total_count
            /\ kvCache' = [report |-> req[p].report,
                           expiry |-> now + 2 * 60]
       /\ (req[p].op = "get" /\ req'[p].pc = "put") =>
            req[p].pc \in {"list", "get", "batch", "put"}
       /\ (req[p].op = "get" /\ req'[p].pc \in {"get", "batch"}) =>
            req[p].pc \in {"list", "get", "batch"}
  ]_vars

\* C8 witness: a GET that found an expired entry has been answered with the
\* report of its own run over a non-empty store, which is now the cached one
C8_Witness ==
  \E p \in Answered("get") :
    /\ req[p].found = "expired"
    /\ req[p].fetches > 0
    /\ "report" \in DOMAIN kvCache
    /\ kvCache.report = req[p].resp
    /\ kvCache.expiry > CacheTtl

\* C9: the cache slot is empty or holds exactly the report one finished
\* aggregation run returned, all of whose parts belong together; and so is
\* every report a reader was answered with.
C9_CacheHoldsCompleteReport ==
  /\ "report" \in DOMAIN kvCache =>
       kvCache.report \in StoredRuns /\ Complete(kvCache.report)
  /\ \A p \in Answered("get") :
       req[p].resp \in StoredRuns /\ Complete(req[p].resp)

\* C9 witness: the slot holds a report with a Success and a Failure entry
\* that overwrote the report of an earlier run
C9_Witness ==
  /\ "report" \in DOMAIN kvCache
  /\ \E i, j \in DOMAIN kvCache.report.data :
       /\ isApiUsageData(kvCache.report.data[i])
       /\ ~isApiUsageData(kvCache.report.data[j])
  /\ \E r \in StoredRuns : r # kvCache.report

\* C26: no two stored credentials have the same secret, whatever adds ran
\* and however they interleaved (the stores at the start hold pairwise
\* distinct secrets).
C26_NoDuplicateSecrets ==
  \A i, j \in DOMAIN kvKeys : i # j => kvKeys[i] # kvKeys[j]

\* =========================================================================
\* SpecAgg: one GET /api/data that misses the cache, over a key store of
\* 0..MaxAggKeys credentials that no other request changes, against every
\* combination of answers of the upstream.  The call of batchProcess is one
\* step that leaves its argument in bItems and its return value in bResults
\* (SpecBatch examines the run itself); the report is built from bResults in
\* the next step.
\* =========================================================================

AggProc == "r1"

AggResponses ==
  { [status |-> st, body |-> [unparseable |-> TRUE]] : st \in {0, 500} }
    \cup { [status |-> 200, body |-> [usage |-> [standard |-> s]]] :
             s \in Standards }

InitAgg ==
  /\ \E k \in 0..MaxAggKeys :
       /\ kvKeys = [i \in 1..k |-> BatchKey(i)]
       /\ nextId = k + 1
  /\ kvCache = NoCache
  /\ now = 0
  /\ req = [p \in Procs |-> IdleReq]
  /\ MaskIdle
  /\ BatchIdle

\* getAggregatedData: `const results = await batchProcess(keyPairs, ...)`;
\* resps[k] is the response that ended the fetchApiKeyData call for
\* keyPairs[k]
AggBatchProcess(p) ==
  /\ req[p].pc = "batch"
  /\ \E resps \in [DOMAIN req[p].keyPairs -> AggResponses] :
       /\ bItems' = req[p].keyPairs
       /\ bResults' = [k \in DOMAIN req[p].keyPairs |->
                         fetchApiKeyData(req[p].keyPairs[k].id,
                                         req[p].keyPairs[k].key,
                                         maxRetries, resps[k]).result]
  /\ bPc' = "done"
  /\ req' = [req EXCEPT ![p] =
               [@ EXCEPT !.fetches = Len(req[p].keyPairs), !.pc = "report"]]
  /\ UNCHANGED <<bConc, bI, wState, wRetry, wResult, wResps, wCalls, bOrder,
                 bDelays, kvKeys, kvCache, now, nextId, maskVars>>

\* getAggregatedData, lines 236-253: the report built from results
AggReport(p) ==
  /\ req[p].pc = "report"
  /\ req' = [req EXCEPT ![p] =
               [@ EXCEPT !.report = aggregate(req[p].keyPairs, bResults,
                                              req[p].time),
                         !.keyPairs = <<>>, !.time = 0, !.pc = "put"]]
  /\ UNCHANGED <<kvKeys, kvCache, now, nextId, maskVars, batchVars>>

NextAgg ==
  \/ GetData(AggProc)
  \/ ListKeys(AggProc)
  \/ GetKey(AggProc)
  \/ AggBatchProcess(AggProc)
  \/ AggReport(AggProc)
  \/ PutCache(AggProc)

SpecAgg == InitAgg /\ [][NextAgg]_vars

\* the report the aggregation run of the request has built, if it has
AggBuilt == req[AggProc].report # NoReport

\* how often r occurs in seq
Occurrences(seq, r) == Cardinality({k \in DOMAIN seq : seq[k] = r})

\* C16: the data of the report built from a non-empty sequence of results is
\* a permutation of the results: as long as the input, every result once.
C16_DataIsPermutationOfResults ==
  (AggBuilt /\ bResults # <<>>) =>
    LET data == req[AggProc].report.data
    IN  /\ Len(data) = Len(bResults)
        /\ \A k \in DOMAIN bResults :
             Occurrences(data, bResults[k]) = Occurrences(bResults, bResults[k])

\* C16 witness: a report built from three results, a Failure ahead of two
\* Success results, in an order other than the input's
C16_Witness ==
  /\ AggBuilt
  /\ Len(bResults) = 3
  /\ ~isApiUsageData(bResults[1])
  /\ isApiUsageData(bResults[2])
  /\ isApiUsageData(bResults[3])
  /\ req[AggProc].report.data # bResults

\* C17: in every report all Success entries precede all Failure entries, and
\* of two adjacent Success entries the first has at least the second's
\* max(0, allowance - used).
C17_SuccessFirstByRemainingDesc ==
  AggBuilt =>
    LET data == req[AggProc].report.data
        rem(e) == IF e.totalAllowance - e.orgTotalTokensUsed > 0
                    THEN e.totalAllowance - e.orgTotalTokensUsed ELSE 0
    IN  /\ \A i, j \in DOMAIN data :
             ("error" \in DOMAIN data[i] /\ "error" \notin DOMAIN data[j])
               => j < i
        /\ \A i \in DOMAIN data :
             (i + 1 \in DOMAIN data /\ "error" \notin DOMAIN data[i]
                /\ "error" \notin DOMAIN data[i + 1])
               => rem(data[i]) >= rem(data[i + 1])

\* C17 witness: a report in which a Success entry with more remaining was
\* moved ahead of one that came before it in the input, and a Failure that
\* came first in the input is last
C17_Witness ==
  /\ AggBuilt
  /\ Len(bResults) = 3
  /\ ~isApiUsageData(bResults[1])
  /\ isApiUsageData(bResults[2])
  /\ isApiUsageData(bResults[3])
  /\ req[AggProc].report.data = <<bResults[3], bResults[2], bResults[1]>>

\* the sum of a sequence of numbers
RECURSIVE SeqSum(_)
SeqSum(seq) == IF seq = <<>> THEN 0 ELSE Head(seq) + SeqSum(Tail(seq))

\* the sum of f(e) over the Success entries e of data
SuccessSum(data, f(_)) ==
  SeqSum([k \in DOMAIN data |->
            IF "error" \in DOMAIN data[k] THEN 0 ELSE f(data[k])])

\* C18: in every report totalRemaining is the sum of max(0, allowance - used)
\* over the Success entries, and the totals of used and of allowance are the
\* sums of used and of allowance over the Success entries; an entry with
\* used > allowance adds 0 to totalRemaining, a Failure entry adds nothing.
C18_TotalsAreSumsOverSuccess ==
  AggBuilt =>
    LET report == req[AggProc].report
        used(e) == e.orgTotalTokensUsed
        allowance(e) == e.totalAllowance
        rem(e) == IF allowance(e) - used(e) > 0 THEN allowance(e) - used(e)
                  ELSE 0
    IN  /\ report.totals.totalRemaining = SuccessSum(report.data, rem)
        /\ report.totals.total_orgTotalTokensUsed = SuccessSum(report.data, used)
        /\ report.totals.total_totalAllowance = SuccessSum(report.data, allowance)

\* C18 witness: a report with a Success entry that used more than its
\* allowance, a Success entry with allowance left and a Failure entry, whose
\* totalRemaining is the second entry's remainder alone
C18_Witness ==
  /\ AggBuilt
  /\ \E i, j, k \in DOMAIN req[AggProc].report.data :
       LET data == req[AggProc].report.data
       IN  /\ isApiUsageData(data[i])
           /\ data[i].orgTotalTokensUsed > data[i].totalAllowance
           /\ isApiUsageData(data[j])
           /\ data[j].orgTotalTokensUsed = 100
           /\ data[j].totalAllowance = 500
           /\ ~isApiUsageData(data[k])
  /\ req[AggProc].report.totals =
       [total_orgTotalTokensUsed |-> 800, total_totalAllowance |-> 1000,
        totalRemaining |-> 400]

\* C19: total_count of every report is the number of credentials in the
\* key-store snapshot its run was computed from (here the whole store, which
\* does not change), the credentials whose fetch failed included.
C19_TotalCountIsSnapshotSize ==
  AggBuilt =>
    /\ req[AggProc].report.total_count = Len(bItems)
    /\ req[AggProc].report.total_count = Cardinality(DOMAIN kvKeys)

\* C19 witness: a report over three credentials of which two failed
C19_Witness ==
  /\ AggBuilt
  /\ req[AggProc].report.total_count = 3
  /\ Cardinality({k \in DOMAIN req[AggProc].report.data :
                    isApiUsageData(req[AggProc].report.data[k])}) = 1

\* C20: over a key store with no credentials the aggregation run returns the
\* report with total_count 0, the three totals 0 and empty data, having made
\* no upstream request and not having called batchProcess.
C20_EmptyStoreEmptyReport ==
  DOMAIN kvKeys = {} =>
    /\ bPc = "off"
    /\ req[AggProc].fetches = 0
    /\ req[AggProc].pc \notin {"batch", "report"}
    /\ AggBuilt =>
         /\ req[AggProc].report.total_count = 0
         /\ req[AggProc].report.totals =
              [total_orgTotalTokensUsed |-> 0, total_totalAllowance |-> 0,
               totalRemaining |-> 0]
         /\ req[AggProc].report.data = <<>>

\* C20 witness: a GET /api/data over the empty store has been answered with
\* the report its run built
C20_Witness ==
  /\ DOMAIN kvKeys = {}
  /\ req[AggProc].pc = "done"
  /\ req[AggProc].found = "absent"
  /\ req[AggProc].resp = req[AggProc].report
  /\ req[AggProc].resp.total_count = 0

\* C25: in every report the Failure entries are in the order of their
\* credentials in the snapshot, and Success entries with equal
\* max(0, allowance - used) are in the order of the input.
C25_FailuresAndTiesKeepInputOrder ==
  AggBuilt =>
    LET data == req[AggProc].report.data
        pos(e) == CHOOSE k \in DOMAIN bResults : bResults[k] = e
        rem(e) == IF e.totalAllowance - e.orgTotalTokensUsed > 0
                    THEN e.totalAllowance - e.orgTotalTokensUsed ELSE 0
    IN  \A i, j \in DOMAIN data :
          i < j =>
            /\ ("error" \in DOMAIN data[i] /\ "error" \in DOMAIN data[j])
                 => /\ pos(data[i]) < pos(data[j])
                    /\ bItems[pos(data[i])].id < bItems[pos(data[j])].id
            /\ ("error" \notin DOMAIN data[i] /\ "error" \notin DOMAIN data[j]
                  /\ rem(data[i]) = rem(data[j]))
                 => pos(data[i]) < pos(data[j])

\* C25 witness: a report from four results, Failure and Success
\* alternating, the two Success results with different usage figures and
\* equal remainder: the Success entries first, then the Failures, each pair
\* in input order
C25_Witness ==
  /\ AggBuilt
  /\ Len(bResults) = 4
  /\ ~isApiUsageData(bResults[1])
  /\ isApiUsageData(bResults[2])
  /\ ~isApiUsageData(bResults[3])
  /\ isApiUsageData(bResults[4])
  /\ bResults[1].error # bResults[3].error
  /\ bResults[2].orgTotalTokensUsed # bResults[4].orgTotalTokensUsed
  /\ req[AggProc].report.data =
       <<bResults[2], bResults[4], bResults[1], bResults[3]>>

\* =========================================================================
\* SpecRefresh: POST /api/keys/:id/refresh served concurrently with
\* GET /api/data over a key store that no request changes, while time
\* passes.  The fetchApiKeyData call of the refresh is one step: the result
\* of the response that ended it (SpecMask examines the call itself).
\* =========================================================================

\* handleRefreshSingleKey up to and including `await kv.get(`api_keys:${id}`)`:
\* an id that names no stored credential is answered 404
RefreshSingleKey(p) ==
  /\ CanStart(p)
  /\ \E id \in KnownIds :
       LET r == [IdleReq EXCEPT !.op = "refresh", !.arg = {id}]
       IN  req' = [req EXCEPT ![p] =
                     IF id \in DOMAIN kvKeys
                       THEN [r EXCEPT !.key = kvKeys[id], !.pc = "fetch"]
                       ELSE Done(r, 404, NoReport)]
  /\ UNCHANGED <<kvKeys, kvCache, now, nextId, maskVars, batchVars>>

\* a refresh that also drops the cached report
RefreshFetchInvalidatingCache(p) ==
  /\ req[p].pc = "fetch"
  /\ \E id \in req[p].arg : \E resp \in SysResponses :
       LET keyData == fetchApiKeyData(id, req[p].key, maxRetries, resp).result
       IN  req' = [req EXCEPT ![p] =
                     Done([@ EXCEPT !.fetches = 1], 200, keyData)]
  /\ kvCache' = NoCache
  /\ UNCHANGED <<kvKeys, now, nextId, maskVars, batchVars>>

\* handleRefreshSingleKey: `const keyData = await fetchApiKeyData(id, key)`
\* and the return of {success: true, data: keyData}
RefreshFetch(p) ==
  /\ req[p].pc = "fetch"
  /\ \E id \in req[p].arg : \E resp \in SysResponses :
       LET keyData == fetchApiKeyData(id, req[p].key, maxRetries, resp).result
       IN  req' = [req EXCEPT ![p] =
                     Done([@ EXCEPT !.fetches = 1], 200, keyData)]
  /\ UNCHANGED <<kvKeys, kvCache, now, nextId, maskVars, batchVars>>

NextRefresh ==
  \/ \E p \in Procs : GetData(p)
  \/ \E p \in Procs : ListKeys(p)
  \/ \E p \in Procs : GetKey(p)
  \/ \E p \in Procs : RunBatch(p)
  \/ \E p \in Procs : PutCache(p)
  \/ \E p \in Procs : RefreshSingleKey(p)
  \/ \E p \in Procs : RefreshFetch(p)
  \/ Tick

SpecRefresh == Init /\ [][NextRefresh]_vars

\* C21: every step of a refresh request leaves the cache slot and the key
\* store as they were; the request looks up no cached report, never enters
\* the aggregation run with its batch scheduler, and is answered with the
\* result of one fetchApiKeyData call for the credential it names.
C21_RefreshBypassesCacheAndBatch ==
  [][\A p \in Procs :
       (req'[p].op = "refresh" /\ req'[p] # req[p]) =>
         /\ kvCache' = kvCache
         /\ kvKeys' = kvKeys
         /\ req'[p].pc \in {"fetch", "done"}
         /\ req'[p].found = "none"
         /\ req'[p].report = NoReport
         /\ (req'[p].pc = "done" /\ req'[p].status = 200) =>
              /\ req[p].pc = "fetch"
              /\ req'[p].fetches = 1
              /\ \E resp \in SysResponses :
                   req'[p].resp =
                     fetchApiKeyData(CHOOSE id \in req[p].arg : TRUE,
                                     req[p].key, maxRetries, resp).result
  ]_vars

\* C21 witness: a refresh has been answered with a Failure result for a
\* credential that the cached report, still in place, lists as a Success
C21_Witness ==
  \E p \in Answered("refresh") :
    /\ "error" \in DOMAIN req[p].resp
    /\ "report" \in DOMAIN kvCache
    /\ now < kvCache.expiry
    /\ \E k \in DOMAIN kvCache.report.data :
         /\ kvCache.report.data[k].id = req[p].resp.id
         /\ isApiUsageData(kvCache.report.data[k])

\* =========================================================================
\* SpecLive: one GET /api/data that misses the cache, over a key store of
\* 0..MaxLiveKeys credentials, whose batchProcess call runs step by step as
\* in SpecBatch (with every concurrency 1..MaxConc).  Every upstream request
\* is eventually answered or fails, every timer eventually fires, every KV
\* operation eventually completes and every continuation eventually runs;
\* when the request arrives is left open.
\* =========================================================================

InitLive ==
  /\ \E k \in 0..MaxLiveKeys :
       /\ kvKeys = [i \in 1..k |-> BatchKey(i)]
       /\ nextId = k + 1
  /\ kvCache = NoCache
  /\ now = 0
  /\ req = [p \in Procs |-> IdleReq]
  /\ MaskIdle
  /\ bConc \in 1..MaxConc
  /\ bItems = <<>> /\ bPc = "off" /\ bI = 0 /\ bResults = <<>>
  /\ wState = <<>> /\ wRetry = <<>> /\ wResult = <<>> /\ wResps = <<>>
  /\ wCalls = <<>> /\ bOrder = <<>> /\ bDelays = <<>>

\* getAggregatedData: batchProcess(keyPairs, ...) is called
LiveBatchProcess(p) ==
  /\ req[p].pc = "batch"
  /\ bItems' = req[p].keyPairs
  /\ wState' = [i \in DOMAIN req[p].keyPairs |-> "idle"]
  /\ wRetry' = [i \in DOMAIN req[p].keyPairs |-> 0]
  /\ wResult' = [i \in DOMAIN req[p].keyPairs |-> NoResult]
  /\ wResps' = [i \in DOMAIN req[p].keyPairs |-> <<>>]
  /\ wCalls' = [i \in DOMAIN req[p].keyPairs |-> 0]
  /\ bPc' = "init"
  /\ req' = [req EXCEPT ![p] = [@ EXCEPT !.pc = "awaitBatch"]]
  /\ UNCHANGED <<bConc, bI, bResults, bOrder, bDelays, kvKeys, kvCache, now,
                 nextId, maskVars>>

\* getAggregatedData: `await batchProcess(...)` resumes with the results
LiveBatchReturn(p) ==
  /\ req[p].pc = "awaitBatch"
  /\ bPc = "done"
  /\ req' = [req EXCEPT ![p] =
               [@ EXCEPT !.fetches = Len(bItems), !.pc = "report"]]
  /\ UNCHANGED <<kvKeys, kvCache, now, nextId, maskVars, batchVars>>

\* what an upstream request can end in: a rejected fetch(), a 401, and a
\* 200 with a usage body
LiveResponses ==
  { [status |-> st, body |-> [unparseable |-> TRUE]] : st \in {0, 401} }
    \cup { [status |-> 200,
             body |-> [usage |-> [startDate |-> 0, standard |->
                         [orgTotalTokensUsed |-> 100, totalAllowance |-> 500]]]] }

\* an outstanding upstream request is answered or fails
LiveUpstream == \E w \in DOMAIN bItems : WorkerResponseFrom(w, LiveResponses)

\* a timer that was set fires
LiveTimers ==
  \/ \E w \in DOMAIN bItems : WorkerRetry(w)
  \/ DelayElapsed

\* a KV operation completes, or a continuation that is ready to run runs
LiveContinuations ==
  \/ ListKeys(AggProc)
  \/ GetKey(AggProc)
  \/ LiveBatchProcess(AggProc)
  \/ BatchCall
  \/ BatchSettled
  \/ LiveBatchReturn(AggProc)
  \/ AggReport(AggProc)
  \/ PutCache(AggProc)

NextLive ==
  \/ GetData(AggProc)
  \/ LiveUpstream
  \/ LiveTimers
  \/ LiveContinuations

SpecLive ==
  /\ InitLive
  /\ [][NextLive]_vars
  /\ WF_vars(LiveUpstream)
  /\ WF_vars(LiveTimers)
  /\ WF_vars(LiveContinuations)

\* C22: every fetchApiKeyData call that was started eventually returns a
\* result, every batchProcess call eventually returns with a result for
\* every item, and every GET /api/data that arrived is eventually answered.
C22_NothingBlocksForever ==
  /\ \A w \in 1..MaxLiveKeys :
       (w \in DOMAIN wState /\ wState[w] \in {"inflight", "backoff"})
         ~> (w \in DOMAIN wState /\ wState[w] = "settled"
               /\ wResult[w] # NoResult)
  /\ (bPc = "init") ~> (bPc = "done" /\ Len(bResults) = Len(bItems))
  /\ (req[AggProc].pc \notin {"idle", "done"})
       ~> (req[AggProc].pc = "done" /\ req[AggProc].status = 200)

\* C22 witness: the request has been answered after a batch run of two
\* chunks in which one call made all three of its requests
C22_Witness ==
  /\ req[AggProc].pc = "done"
  /\ Len(bDelays) >= 1
  /\ \E w \in DOMAIN bItems : wCalls[w] = 3

\* =========================================================================
\* SpecFail: GET /api/data requests served concurrently over a key store
\* whose operations may fail: kv.list and kv.get inside getAllKeys may
\* reject.  No request changes the key store; time passes.
\* =========================================================================

\* what handleGetData's catch block answers with: createErrorResponse of the
\* error's message, status 500
KvError == [error |-> "KV error"]

\* a failed listing after which the handler caches an empty report
GetAllKeysFailsCachingEmpty(p) ==
  /\ req[p].pc \in {"list", "get"}
  /\ req[p].ctx = "agg"
  /\ req' = [req EXCEPT ![p] = Done(@, 500, KvError)]
  /\ kvCache' = setCachedData(kvCache, emptyResponse(getBeijingTime(now)), now)
  /\ UNCHANGED <<kvKeys, now, nextId, maskVars, batchVars>>

\* getAllKeys inside getAggregatedData: `await kv.list(...)` or
\* `await kv.get(key.name)` rejects; the rejection passes through
\* getAggregatedData to the catch block of handleGetData (lines 270-272)
GetAllKeysFails(p) ==
  /\ req[p].pc \in {"list", "get"}
  /\ req[p].ctx = "agg"
  /\ req' = [req EXCEPT ![p] = Done(@, 500, KvError)]
  /\ UNCHANGED <<kvKeys, kvCache, now, nextId, maskVars, batchVars>>

NextFail ==
  \/ \E p \in Procs : GetData(p)
  \/ \E p \in Procs : ListKeys(p)
  \/ \E p \in Procs : GetKey(p)
  \/ \E p \in Procs : GetAllKeysFails(p)
  \/ \E p \in Procs : RunBatch(p)
  \/ \E p \in Procs : PutCache(p)
  \/ Tick

SpecFail == Init /\ [][NextFail]_vars

\* C27: a GET /api/data ends in an error only when its key-store listing
\* failed; it is then answered 500 with an error message, has made no
\* upstream request, and the step leaves the cache slot as it was; a run
\* whose fetches failed is answered 200 with its report.
C27_ListingFailureLeavesCache ==
  [][\A p \in Procs :
       /\ (req'[p].op = "get" /\ req'[p].pc = "done" /\ req[p].pc # "done"
             /\ req'[p].status # 200) =>
            /\ req[p].pc \in {"list", "get"}
            /\ req'[p].status = 500
            /\ req'[p].resp = [error |-> "KV error"]
            /\ req'[p].fetches = 0
            /\ req'[p].report = NoReport
            /\ kvCache' = kvCache
       /\ (req[p].op = "get" /\ req[p].pc \in {"batch", "put"}
             /\ req'[p] # req[p]) =>
            /\ req'[p].status \in {0, 200}
            /\ req'[p].report # NoReport
       /\ (req[p].op = "get" /\ req[p].pc = "put" /\ req'[p].pc = "done") =>
            /\ req'[p].status = 200
            /\ req'[p].resp = req[p].report
  ]_vars

\* C27 witness: a GET whose listing failed has been answered 500 while the
\* cache holds the report another GET stored in the meantime, and that
\* report is made of Failure entries only
C27_Witness ==
  \E p, q \in Procs :
    /\ req[p].pc = "done" /\ req[p].status = 500
    /\ req[p].found = "absent"
    /\ req[q].pc = "done" /\ req[q].status = 200
    /\ "report" \in DOMAIN kvCache
    /\ kvCache.report = req[q].resp
    /\ kvCache.report.data # <<>>
    /\ \A k \in DOMAIN kvCache.report.data :
         ~isApiUsageData(kvCache.report.data[k])

=============================================================================
